---- MODULE Spec2Model ----
(***************************************************************************)
(* Model of src/main.py: the publish-once scheduler.  One run of main()    *)
(* loads the ledger object (published.json) from Drive, checks the daily   *)
(* gate, lists the .docx files of the folder, and walks the listing until  *)
(* one file that is not in the ledger has been published to WordPress; it  *)
(* then appends the id, stamps the date and saves the ledger.              *)
(*                                                                         *)
(* Files are modelled by their ids (file['name'] only feeds the title).    *)
(* Dates are day numbers, 0 standing for the empty string "".              *)
(* The fields of run[p] below the line "history" are not program state:    *)
(* they record what the run has done so that properties can be stated.     *)
(***************************************************************************)
EXTENDS Naturals, Integers, Sequences, FiniteSets, TLC

\* ------------------------------------------------------------------ bounds
NumFiles == 2
MaxRuns == 2
MaxClock == 3
TicksPerDay == 2

FileIds == 1..NumFiles
Procs == {1, 2}
SeqProcs == {1}

VARIABLES durable, clock, nruns, run, pubLog, saveLog, faults, ledger0

vars == <<durable, clock, nruns, run, pubLog, saveLog, faults, ledger0>>

\* ----------------------------------------------------------------- helpers
Range(s) == {s[i] : i \in 1..Len(s)}

\* every duplicate-free sequence over S (Drive file ids are unique in a listing)
InjSeqs(S) ==
    UNION {{s \in [1..n -> S] : \A i, j \in 1..n : s[i] = s[j] => i = j} :
           n \in 0..Cardinality(S)}

\* datetime.now().strftime("%Y-%m-%d"): the calendar date of an instant
DateOf(t) == (t \div TicksPerDay) + 1

\* --------------------------------------------------- the ledger object
\* what the Drive object PUBLISHED_FILE_ID can hold
Absent == [kind |-> "absent", ids |-> <<>>, date |-> 0]
Invalid == [kind |-> "invalid", ids |-> <<>>, date |-> 0]
Scalar == [kind |-> "scalar", ids |-> <<>>, date |-> 0]
LegacyList(ids) == [kind |-> "list", ids |-> ids, date |-> 0]
Structured(ids, date) == [kind |-> "dict", ids |-> ids, date |-> date]

DefaultLedger == [published_ids |-> <<>>, last_published_date |-> 0]

\* the try body of load_published raises: transport error, no such object,
\* or json.load on text that is not JSON
LoadRaises(obj, readOk) == ~readOk \/ obj.kind \in {"absent", "invalid"}

\* what the try body raises: googleapiclient's HttpError for a failed or
\* impossible read, json's JSONDecodeError for text that is not JSON
ErrorOf(obj, readOk) ==
    IF ~readOk \/ obj.kind = "absent" THEN "HttpError"
    ELSE IF obj.kind = "invalid" THEN "JSONDecodeError"
    ELSE "none"

\* a handler written for the transport error only
CaughtHttpOnly(e) == e = "HttpError"

\* line 48: except Exception
Caught(e) == e \in {"HttpError", "JSONDecodeError"}

\* a loader without the isinstance(data, list) branch of lines 41-42
load_publishedDictOnly(obj, readOk) ==
    IF LoadRaises(obj, readOk) THEN DefaultLedger
    ELSE IF obj.kind = "dict"
         THEN [published_ids |-> obj.ids, last_published_date |-> obj.date]
    ELSE DefaultLedger

load_published(obj, readOk) ==
    IF LoadRaises(obj, readOk) THEN DefaultLedger
    ELSE IF obj.kind = "list"
         THEN [published_ids |-> obj.ids, last_published_date |-> 0]
    ELSE IF obj.kind = "dict"
         THEN [published_ids |-> obj.ids, last_published_date |-> obj.date]
    ELSE DefaultLedger

\* a save that writes the ids as they were before the append of line 131
SerializedStale(published_data) ==
    Structured(SubSeq(published_data.published_ids, 1,
                      Len(published_data.published_ids) - 1),
               published_data.last_published_date)

\* json.dumps(published_data) as stored by files().update
Serialized(published_data) ==
    Structured(published_data.published_ids, published_data.last_published_date)

\* an upload that, when it fails, leaves a truncated object behind
save_publishedTorn(obj, published_data, writeOk) ==
    IF writeOk /\ obj.kind # "absent" THEN Serialized(published_data)
    ELSE IF obj.kind # "absent" THEN Invalid
    ELSE obj

\* files().update replaces the content of an existing object only
save_published(obj, published_data, writeOk) ==
    IF writeOk /\ obj.kind # "absent" THEN Serialized(published_data) ELSE obj

\* ------------------------------------------------------------ main()
\* a gate that only stops a ledger dated in the future
GateDeniesLater(today, last_date) == today < last_date

\* line 115
GateDenies(today, last_date) == today = last_date

\* a membership test against the default of line 111 instead of the loaded ids
IsPublishedDefault(id, published_ids) == id \in Range(<<>>)

\* line 122
IsPublished(id, published_ids) == id \in Range(published_ids)

\* the for loop's "continue": first index >= from whose id is not in the
\* ledger, Len(files)+1 when the loop runs off the end
RECURSIVE SelectNext(_, _, _)
SelectNext(files, from, published_ids) ==
    IF from > Len(files) THEN Len(files) + 1
    ELSE IF IsPublished(files[from], published_ids)
         THEN SelectNext(files, from + 1, published_ids)
    ELSE from

\* a commit that forgets line 133
recordPublishNoDate(published_data, id, today) ==
    [published_ids |-> Append(published_data.published_ids, id),
     last_published_date |-> published_data.last_published_date]

\* lines 131-133
recordPublish(published_data, id, today) ==
    [published_ids |-> Append(published_data.published_ids, id),
     last_published_date |-> today]

Terminal == {"DENIED", "NONE_LEFT", "FAILURE", "DONE", "CRASHED"}

IdleRun ==
    [pc |-> "idle", published_data |-> DefaultLedger, last_date |-> 0,
     today |-> 0, files |-> <<>>, idx |-> 0,
     \* history
     no |-> 0, loadOk |-> TRUE, ledgerAtStart |-> Absent, loaded |-> DefaultLedger,
     nList |-> 0, fetched |-> <<>>, attempts |-> <<>>, nSave |-> 0,
     fetchFailed |-> 0, crashAt |-> "none", saved |-> "none"]

InitLedgers ==
    {Absent, Invalid, Scalar, LegacyList(<<1>>), Structured(<<>>, 0),
     Structured(<<1>>, 1)}

Init ==
    /\ durable \in InitLedgers
    /\ ledger0 = durable
    /\ clock = 0
    /\ nruns = 0
    /\ run = [p \in Procs |-> IdleRun]
    /\ pubLog = <<>>
    /\ saveLog = <<>>
    /\ faults = {}

\* the clock of the host moves on at any moment, also in the middle of a run
Tick ==
    /\ clock < MaxClock
    /\ clock' = clock + 1
    /\ UNCHANGED <<durable, nruns, run, pubLog, saveLog, faults, ledger0>>

\* lines 109-117: load the ledger, read the date, check the gate
Start(p) ==
    /\ run[p].pc \in {"idle"} \cup Terminal
    /\ nruns < MaxRuns
    /\ \E readOk \in BOOLEAN :
         LET data == load_published(durable, readOk)
             today == DateOf(clock)
             last_date == data.last_published_date
         IN /\ run' = [run EXCEPT ![p] =
                  [IdleRun EXCEPT
                     !.pc = IF LoadRaises(durable, readOk)
                                  /\ ~Caught(ErrorOf(durable, readOk))
                            THEN "CRASHED"
                            ELSE IF GateDenies(today, last_date) THEN "DENIED"
                            ELSE "list",
                     !.crashAt = IF LoadRaises(durable, readOk)
                                    /\ ~Caught(ErrorOf(durable, readOk))
                                 THEN "load" ELSE "none",
                     !.published_data = data,
                     !.last_date = last_date,
                     !.today = today,
                     !.no = nruns + 1,
                     !.loadOk = ~LoadRaises(durable, readOk),
                     !.ledgerAtStart = durable,
                     !.loaded = data]]
            /\ faults' = IF LoadRaises(durable, readOk)
                         THEN faults \cup {"load"} ELSE faults
    /\ nruns' = nruns + 1
    /\ UNCHANGED <<durable, clock, pubLog, saveLog, ledger0>>

Crash(r, where) == [r EXCEPT !.pc = "CRASHED", !.crashAt = where]

\* a loop header without the membership test of lines 122-123
AdvanceNoSkip(r, from) ==
    [r EXCEPT !.idx = from,
              !.pc = IF from <= Len(r.files) THEN "download"
                     ELSE IF r.attempts = <<>> THEN "NONE_LEFT"
                     ELSE "FAILURE"]

\* the for loop header and the membership test, lines 121-123
Advance(r, from) ==
    LET i == SelectNext(r.files, from, r.published_data.published_ids)
    IN [r EXCEPT !.idx = i,
                 !.pc = IF i <= Len(r.files) THEN "download"
                        ELSE IF r.attempts = <<>> THEN "NONE_LEFT"
                        ELSE "FAILURE"]

\* line 119: list_docx_files, which has no handler around it
List(p) ==
    /\ run[p].pc = "list"
    /\ \/ run' = [run EXCEPT ![p] =
                    Crash([run[p] EXCEPT !.nList = @ + 1], "list")]
       \/ \E files \in InjSeqs(FileIds) :
            run' = [run EXCEPT ![p] =
                      Advance([run[p] EXCEPT !.nList = @ + 1, !.files = files], 1)]
    /\ UNCHANGED <<durable, clock, nruns, pubLog, saveLog, faults, ledger0>>

\* a handler that logs the error and lets the for loop go on
FetchErrorSkipped(r, where) ==
    Advance([r EXCEPT !.fetchFailed = r.files[r.idx]], r.idx + 1)

\* what main does when download_file or docx_to_html raises: nothing catches it
FetchError(r, where) ==
    Crash([r EXCEPT !.fetchFailed = r.files[r.idx]], where)

\* line 126: download_file
Download(p) ==
    /\ run[p].pc = "download"
    /\ LET r == [run[p] EXCEPT !.fetched = Append(@, run[p].files[run[p].idx])]
       IN \/ run' = [run EXCEPT ![p] = [r EXCEPT !.pc = "convert"]]
          \/ run' = [run EXCEPT ![p] = FetchError(r, "download")]
    /\ UNCHANGED <<durable, clock, nruns, pubLog, saveLog, faults, ledger0>>

\* line 127: docx_to_html
Convert(p) ==
    /\ run[p].pc = "convert"
    /\ \/ run' = [run EXCEPT ![p] = [run[p] EXCEPT !.pc = "publish"]]
       \/ run' = [run EXCEPT ![p] = FetchError(run[p], "convert")]
    /\ UNCHANGED <<durable, clock, nruns, pubLog, saveLog, faults, ledger0>>

\* a run that records the file whatever publish_to_wp returned
AfterRejectedRecorded(r) ==
    [r EXCEPT !.attempts = Append(@, [id |-> r.files[r.idx], ok |-> FALSE]),
              !.published_data = recordPublish(@, r.files[r.idx], r.today),
              !.pc = "save"]

\* publish_to_wp returned False (status other than 201): the if of line 130
\* is not taken and the for loop goes on with the next file
AfterRejected(r) ==
    Advance([r EXCEPT !.attempts = Append(@, [id |-> r.files[r.idx], ok |-> FALSE])],
            r.idx + 1)

\* publish_to_wp returned True: lines 131-133, then save_published
AfterPublished(r) ==
    [r EXCEPT !.attempts = Append(@, [id |-> r.files[r.idx], ok |-> TRUE]),
              !.published_data = recordPublish(@, r.files[r.idx], r.today),
              !.pc = "save"]

\* line 130: publish_to_wp; requests.post may raise, 201 is success
Publish(p) ==
    /\ run[p].pc = "publish"
    /\ \/ /\ run' = [run EXCEPT ![p] = Crash(run[p], "publish")]
          /\ UNCHANGED pubLog
       \/ /\ run' = [run EXCEPT ![p] = AfterRejected(run[p])]
          /\ UNCHANGED pubLog
       \/ /\ run' = [run EXCEPT ![p] = AfterPublished(run[p])]
          /\ pubLog' = Append(pubLog,
                 [id |-> run[p].files[run[p].idx], day |-> DateOf(clock),
                  today |-> run[p].today, no |-> run[p].no,
                  loadOk |-> run[p].loadOk])
    /\ UNCHANGED <<durable, clock, nruns, saveLog, faults, ledger0>>

\* a loop without the break of line 135
AfterSaveNoBreak(r) == Advance([r EXCEPT !.nSave = @ + 1], r.idx + 1)

\* line 135: break, the run is over
AfterSave(r) == [r EXCEPT !.nSave = @ + 1, !.pc = "DONE"]

\* lines 134-135: save_published swallows its error, then break
Save(p) ==
    /\ run[p].pc = "save"
    /\ \E writeOk \in BOOLEAN :
         LET new == save_published(durable, run[p].published_data, writeOk)
             stored == writeOk /\ durable.kind # "absent"
         IN /\ durable' = new
            /\ saveLog' = IF stored
                          THEN Append(saveLog,
                                 [id |-> run[p].files[run[p].idx],
                                  date |-> run[p].published_data.last_published_date,
                                  no |-> run[p].no,
                                  base |-> run[p].loaded.published_ids,
                                  prior |-> durable.ids,
                                  ids |-> new.ids])
                          ELSE saveLog
            /\ faults' = IF stored THEN faults ELSE faults \cup {"save"}
            /\ run' = [run EXCEPT ![p] =
                         AfterSave([run[p] EXCEPT
                            !.saved = IF stored THEN "ok" ELSE "failed"])]
    /\ UNCHANGED <<clock, nruns, pubLog, ledger0>>

Step(p) ==
    \/ Start(p)
    \/ List(p)
    \/ Download(p)
    \/ Convert(p)
    \/ Publish(p)
    \/ Save(p)

\* runs one after the other (the external trigger starts one run at a time)
Next == Tick \/ \E p \in SeqProcs : Step(p)

Spec == Init /\ [][Next]_vars

\* one invocation of main() that runs while another one does
ConcStep(p) ==
    \/ run[p].pc = "idle" /\ Start(p)
    \/ List(p)
    \/ Download(p)
    \/ Convert(p)
    \/ Publish(p)
    \/ Save(p)

\* two invocations of main() started within the same day, with nothing
\* between them: no lock, no check of the object's version before
\* files().update
NextConc == \E p \in Procs : ConcStep(p)

SpecConc == Init /\ [][NextConc]_vars

\* ------------------------------------------- runs day after day, for ever
\* the folder holds the same files at every listing
Catalog == [i \in 1..NumFiles |-> i]

InitLive == Init /\ durable = Structured(<<>>, 0)

\* The next calendar day begins and the trigger starts main() again.  The
\* stored date is only ever tested for equality with today's (line 115), so
\* the days are renamed: today is day 2 and every earlier date is day 1.
\* The history of the day that ended is dropped.
NewDay ==
    /\ nruns >= 1
    /\ \A p \in SeqProcs : run[p].pc \in Terminal
    /\ clock' = TicksPerDay
    /\ durable' = [durable EXCEPT !.date = IF @ = 0 THEN 0 ELSE 1]
    /\ nruns' = 0
    /\ pubLog' = <<>>
    /\ saveLog' = <<>>
    /\ UNCHANGED <<run, faults, ledger0>>

\* line 119 on the unchanging folder
LiveList(p) ==
    /\ List(p)
    /\ run'[p].pc = "CRASHED" \/ run'[p].files = Catalog

LiveStep(p) ==
    \/ Start(p)
    \/ LiveList(p)
    \/ Download(p)
    \/ Convert(p)
    \/ Publish(p)
    \/ Save(p)

NextLive == NewDay \/ \E p \in SeqProcs : LiveStep(p)

\* the calls that went well
LoadOk(p) == Start(p) /\ run'[p].loadOk
ListOk(p) == LiveList(p) /\ run'[p].pc # "CRASHED"
DownloadOk(p) == Download(p) /\ run'[p].pc = "convert"
ConvertOk(p) == Convert(p) /\ run'[p].pc = "publish"
PublishOk(p) == Publish(p) /\ run'[p].pc = "save"
SaveOk(p) == Save(p) /\ run'[p].saved = "ok"

\* the trigger keeps starting runs and every run keeps going; no call of a
\* collaborator fails for ever: each one, tried again and again, succeeds
\* again and again
SpecLive ==
    /\ InitLive
    /\ [][NextLive]_vars
    /\ WF_vars(NextLive)
    /\ \A p \in SeqProcs :
         /\ SF_vars(LoadOk(p))
         /\ SF_vars(ListOk(p))
         /\ SF_vars(DownloadOk(p))
         /\ SF_vars(ConvertOk(p))
         /\ SF_vars(PublishOk(p))
         /\ SF_vars(SaveOk(p))

\* ------------------------------------------------------------ properties
PubIndexes == DOMAIN pubLog

\* the successful publish_to_wp calls made so far for one id
Publications(id) == {i \in PubIndexes : pubLog[i].id = id}

\* the ids with a successful publish followed by a successful save
Committed == {saveLog[i].id : i \in DOMAIN saveLog}

Succeeded(r) == {k \in DOMAIN r.attempts : r.attempts[k].ok}
Rejected(r) == {k \in DOMAIN r.attempts : ~r.attempts[k].ok}

C2_AtMostOnePublishPerRun ==
    /\ \A i, j \in PubIndexes : pubLog[i].no = pubLog[j].no => i = j
    /\ \A p \in Procs :
         /\ Cardinality(Succeeded(run[p])) <= 1
         /\ \A k \in Succeeded(run[p]) :
              run[p].attempts[k].id \notin Range(run[p].loaded.published_ids)

\* C2 witness: a finished run that had two unpublished candidates and
\* published the first.
C2_Witness ==
    \E p \in Procs :
        /\ run[p].pc = "DONE"
        /\ Len(run[p].files) = 2
        /\ run[p].loaded.published_ids = <<>>
        /\ run[p].attempts = <<[id |-> run[p].files[1], ok |-> TRUE]>>

\* C3 (as stated): a run makes at most one publish attempt, whatever
\* publish_to_wp returns.
C3_AtMostOneAttemptPerRun ==
    \A p \in Procs : Len(run[p].attempts) <= 1

\* C4 (as stated): a run in which publish_to_wp returned False ends with the
\* in-memory ledger and the durable ledger as they were when it started.
C4_RejectedPublishLeavesLedger ==
    \A p \in Procs :
        (run[p].pc \in Terminal /\ Rejected(run[p]) # {}) =>
            /\ run[p].published_data = run[p].loaded
            /\ durable = run[p].ledgerAtStart

\* C5 (as stated): starting from the empty ledger, the ids of the durable
\* ledger are exactly those published successfully and then saved
\* successfully; none is ever removed.
C5_LedgerIsCommittedIds ==
    ledger0 = Structured(<<>>, 0) => Range(durable.ids) = Committed

\* C6: a run whose load succeeded never publishes the id that the run before
\* it published and saved.
C6_NoRepublishAfterSavedRun ==
    \A i \in DOMAIN saveLog : \A j \in PubIndexes :
        (pubLog[j].no = saveLog[i].no + 1 /\ pubLog[j].loadOk) =>
            pubLog[j].id # saveLog[i].id

\* C6 witness: the run after a saved publication loaded the ledger, was
\* listed the saved id, and published.
C6_Witness ==
    /\ Len(saveLog) >= 1
    /\ Len(pubLog) = 2
    /\ saveLog[1].no = 1
    /\ pubLog[2].no = 2
    /\ pubLog[2].loadOk
    /\ \E p \in Procs :
         run[p].no = 2 /\ saveLog[1].id \in Range(run[p].files)

\* C7: a run calls list_docx_files if and only if the loaded
\* last_published_date differs from today's date; when they are equal it is
\* over at once: no listing, no download, no publish attempt, no save.
C7_DailyGate ==
    \A p \in Procs :
        /\ run[p].pc = "list" => run[p].last_date # run[p].today
        /\ run[p].pc \notin {"idle", "list"} =>
             /\ run[p].nList >= 1 <=> run[p].last_date # run[p].today
             /\ run[p].pc = "DENIED" <=> run[p].last_date = run[p].today
        /\ run[p].pc = "DENIED" =>
             /\ run[p].nList = 0
             /\ run[p].fetched = <<>>
             /\ run[p].attempts = <<>>
             /\ run[p].nSave = 0
             /\ durable = run[p].ledgerAtStart

\* C7 witness: a run stopped by a ledger dated today.
C7_Witness ==
    \E p \in Procs :
        /\ run[p].pc = "DENIED"
        /\ run[p].today = run[p].last_date
        /\ run[p].today = DateOf(clock)

C9_NoErrorEscapes ==
    \A p \in Procs : run[p].pc # "CRASHED"

\* C10: when download_file or docx_to_html fails for a candidate, the run is
\* over: no publish attempt for it, its id not in the ledger, nothing saved,
\* no other candidate processed.
C10_FetchFailureEndsRun ==
    \A p \in Procs :
        run[p].fetchFailed # 0 =>
            /\ run[p].pc = "CRASHED"
            /\ run[p].fetched # <<>>
            /\ run[p].fetched[Len(run[p].fetched)] = run[p].fetchFailed
            /\ \A k \in DOMAIN run[p].attempts :
                 run[p].attempts[k].id # run[p].fetchFailed
            /\ run[p].fetchFailed \notin Range(run[p].published_data.published_ids)
            /\ run[p].published_data = run[p].loaded
            /\ run[p].nSave = 0
            /\ durable = run[p].ledgerAtStart

\* C10 witness: the fetch of the first of two unpublished candidates failed.
C10_Witness ==
    \E p \in Procs :
        /\ run[p].fetchFailed # 0
        /\ Len(run[p].files) = 2
        /\ run[p].idx = 1
        /\ run[p].loaded.published_ids = <<>>

\* C11: when save_published fails after a successful publish the run still
\* ends normally, and the durable ledger, ids and date, is what it was
\* before the run.
C11_FailedSaveLeavesLedger ==
    \A p \in Procs :
        run[p].saved = "failed" =>
            /\ run[p].pc = "DONE"
            /\ Succeeded(run[p]) # {}
            /\ durable = run[p].ledgerAtStart

\* C11 witness: the run after a publication whose save failed loaded the
\* ledger, published the same file again, and its save failed too.
C11_Witness ==
    /\ "load" \notin faults
    /\ Len(pubLog) = 2
    /\ pubLog[1].id = pubLog[2].id
    /\ \E p \in Procs :
         /\ run[p].no = 2
         /\ run[p].saved = "failed"
         /\ run[p].ledgerAtStart.kind = "dict"

\* C12: when the ledger cannot be read or parsed, load_published returns the
\* default empty ledger, no error leaves it, the gate lets the run through
\* and the run goes on to the listing.
C12_LoadFailsSoft ==
    \A p \in Procs :
        (run[p].pc # "idle" /\ ~run[p].loadOk) =>
            /\ run[p].crashAt # "load"
            /\ run[p].loaded = DefaultLedger
            /\ run[p].last_date = 0
            /\ run[p].pc # "DENIED"
            /\ run[p].pc = "list" \/ run[p].nList = 1

\* C12 witness: a run that found no JSON in the ledger object has selected a
\* candidate.
C12_Witness ==
    \E p \in Procs :
        /\ ~run[p].loadOk
        /\ run[p].ledgerAtStart.kind = "invalid"
        /\ run[p].pc = "download"

\* the listing came back and every file of it was in the loaded ledger
AllListedPublished(r) ==
    /\ r.nList = 1
    /\ r.crashAt # "list"
    /\ Range(r.files) \subseteq Range(r.loaded.published_ids)

\* C13: when every listed file is already in published_ids (an empty listing
\* included) the run ends without a download, a publish attempt or a save,
\* and the durable ledger is unchanged.
C13_NothingLeftNoEffect ==
    \A p \in Procs :
        AllListedPublished(run[p]) =>
            /\ run[p].pc = "NONE_LEFT"
            /\ run[p].fetched = <<>>
            /\ run[p].attempts = <<>>
            /\ run[p].nSave = 0
            /\ run[p].published_data = run[p].loaded
            /\ durable = run[p].ledgerAtStart

\* C13 witness: a run was listed one file, which its ledger held.
C13_Witness ==
    \E p \in Procs :
        /\ AllListedPublished(run[p])
        /\ run[p].files # <<>>

\* C14: within a run the in-memory ledger changes only after publish_to_wp
\* returned success, and save_published is called at most once, only after
\* such a success.
C14_MutateAndSaveAfterSuccess ==
    \A p \in Procs :
        /\ run[p].published_data # run[p].loaded => Succeeded(run[p]) # {}
        /\ run[p].nSave <= 1
        /\ (run[p].nSave = 1 \/ run[p].pc = "save") => Succeeded(run[p]) # {}

\* C14 witness: a run saved once, after a rejected and then a successful
\* publish.
C14_Witness ==
    \E p \in Procs :
        /\ run[p].nSave = 1
        /\ Rejected(run[p]) # {}
        /\ run[p].published_data # run[p].loaded

\* C15: the dates stored by successful saves never decrease from one save to
\* a later one.
C15_SavedDatesNonDecreasing ==
    \A i, j \in DOMAIN saveLog : i < j => saveLog[i].date <= saveLog[j].date

\* C15 witness: two successful saves, the second on a later date.
C15_Witness ==
    /\ Len(saveLog) = 2
    /\ saveLog[1].date < saveLog[2].date

\* C16: a ledger stored as a plain list is loaded as the structured ledger
\* with the same ids in the same order and no date; the gate lets the run
\* through, no listed legacy id is processed, and a successful commit stores
\* the structured form: the legacy ids, then the new id, with today's date.
C16_LegacyListUpgraded ==
    \A p \in Procs :
        (run[p].pc # "idle" /\ run[p].loadOk /\ run[p].ledgerAtStart.kind = "list") =>
            /\ run[p].loaded =
                 [published_ids |-> run[p].ledgerAtStart.ids,
                  last_published_date |-> 0]
            /\ run[p].pc # "DENIED"
            /\ Range(run[p].fetched) \cap Range(run[p].ledgerAtStart.ids) = {}
            /\ run[p].saved = "ok" =>
                 durable = Structured(
                     Append(run[p].ledgerAtStart.ids, run[p].files[run[p].idx]),
                     run[p].today)

\* C16 witness: a run that loaded the legacy list and was listed its id
\* first has committed another file.
C16_Witness ==
    \E p \in Procs :
        /\ run[p].loadOk
        /\ run[p].ledgerAtStart = LegacyList(<<1>>)
        /\ run[p].files = <<1, 2>>
        /\ run[p].saved = "ok"

\* C18 (as stated): the file a run fetches and tries to publish is the first
\* of the listing whose id is not in the loaded published_ids; no later file
\* of the listing is processed or published.
C18_OnlyFirstUnpublished ==
    \A p \in Procs :
        \A k \in DOMAIN run[p].fetched :
            LET first == SelectNext(run[p].files, 1, run[p].loaded.published_ids)
            IN /\ first <= Len(run[p].files)
               /\ run[p].fetched[k] = run[p].files[first]

NoDuplicates(ids) == \A i, j \in DOMAIN ids : ids[i] = ids[j] => i = j

\* C20 (as stated): a ledger without duplicate ids never gets one, and every
\* successful commit stores the ids stored before it, in their order, with
\* one new id at the end.
C20_CommitAppendsOne ==
    NoDuplicates(ledger0.ids) =>
        /\ NoDuplicates(durable.ids)
        /\ \A i \in DOMAIN saveLog :
             saveLog[i].ids = Append(saveLog[i].prior, saveLog[i].id)

\* C17: runs that overlap are not coordinated.  Every save stores the ids its
\* own run loaded plus the id it published, whatever the object holds by
\* then; so (witness) two runs that both loaded before either saved publish
\* the same id twice, and the second save overwrites the first.
C17_SaveStoresOwnView ==
    \A i \in DOMAIN saveLog :
        saveLog[i].ids = Append(saveLog[i].base, saveLog[i].id)

\* C17 witness: without any failed load or save, two runs on the two
\* processes loaded the same ledger, both published the same id, and the
\* second save replaced what the first had stored.
C17_Witness ==
    /\ faults = {}
    /\ run[1].no # 0 /\ run[2].no # 0
    /\ run[1].ledgerAtStart = run[2].ledgerAtStart
    /\ Len(pubLog) = 2
    /\ pubLog[1].id = pubLog[2].id
    /\ Len(saveLog) = 2
    /\ saveLog[2].prior = saveLog[1].ids
    /\ saveLog[2].base = saveLog[1].base

AllCommitted == FileIds \subseteq Range(durable.ids)

\* a run has ended in which publish_to_wp rejected the file
RejectedIn(id) ==
    \E p \in Procs :
        /\ run[p].pc \in Terminal
        /\ \E k \in Rejected(run[p]) : run[p].attempts[k].id = id

\* a run is about to call publish_to_wp for the file
Attempting(id) ==
    \E p \in Procs : run[p].pc = "publish" /\ run[p].files[run[p].idx] = id

\* C19 (as stated): with runs day after day on a fixed folder and no call
\* failing for ever, every file of the folder is eventually in the durable
\* ledger, and a file whose publish failed is attempted again by a later run.
C19_NoFileDropped ==
    /\ <>AllCommitted
    /\ \A id \in FileIds : RejectedIn(id) ~> Attempting(id)

====
